---- MODULE Spec2Model ----
(***************************************************************************)
(* HetznerAutomation (src/main.py): the traffic monitor with staged        *)
(* threshold warnings, the destroy-on-limit policy, the daily sleep cycle  *)
(* and the /stop and /rebuild bot commands.                                *)
(*                                                                         *)
(* Two threads run (start, lines 384-397): the scheduler thread executes   *)
(* the due jobs inline, one after the other; the bot thread executes one   *)
(* command handler at a time.  A step of the model is one provider API     *)
(* call together with the local code around it.  The provider, the         *)
(* messenger and the attributes of provider objects are the environment:   *)
(* each call may succeed or raise.                                         *)
(***************************************************************************)
EXTENDS Integers, Sequences, FiniteSets, TLC

VARIABLES
    config,               \* self.config, loaded once (line 21)
    directory,            \* the provider's servers: name -> <<>> or <<spec>>
    notified_thresholds,  \* self.notified_thresholds (line 24)
    sched,                \* the scheduler thread: position and locals
    cmd,                  \* the bot thread: position and locals
    events,               \* what the last step sent, logged and requested
    run,                  \* history of the scheduler's current or last job
    warned,               \* history: thresholds warned per name since its reset
    policy_reset,         \* history: names destroyed by the policy, not evaluated since
    steady                \* the usage held constant per name, and the polls under it

vars == <<config, directory, notified_thresholds, sched, cmd, events, run,
          warned, policy_reset, steady>>

----------------------------------------------------------------------------
(* Bounds of the model *)

\* the history of warnings of one server is kept up to this length
MaxWarned == 4

\* the server names of the account
Names == {"web1", "web2"}

\* the order in which the provider lists the servers (get_all)
ListOrder == <<"web1", "web2">>

\* server.primary_disk_size as the provider may report it (0: no disk size)
DiskSizes == {0, 1, 2, 5}

SpecA == [server_type |-> "cx21", image |-> "ubuntu-22.04", location |-> "fsn1",
          ssh_keys |-> {"k1"}]

SpecB == [server_type |-> "cx31", image |-> "debian-12", location |-> "nbg1",
          ssh_keys |-> {"k1", "k2"}]

ServerSpecs == {SpecA, SpecB}

\* config.json as the deployment writes it: ascending percentages, the
\* destroy limit not below the largest warning threshold
Configs ==
    { [notification_thresholds |-> <<10, 25, 50>>,
       traffic_limit_percent |-> 50,
       sleep_mode |-> [enable |-> se,
                       rebuild_servers |->
                           << [name |-> "web1"] @@ SpecB,
                              [name |-> "web2"] @@ SpecA >>],
       cloudflare |-> [enable |-> ce]] : se \in BOOLEAN, ce \in BOOLEAN }

----------------------------------------------------------------------------
(* Helpers for Python values *)

\* dict.get(key, default)
DictGet(d, k, default) == IF k \in DOMAIN d THEN d[k] ELSE default

\* d[key] = value
DictSet(d, k, v) == [x \in (DOMAIN d) \cup {k} |-> IF x = k THEN v ELSE d[x]]

\* dict.pop(key, None)
DictPop(d, k) == [x \in (DOMAIN d) \ {k} |-> d[x]]

EmptyDict == [x \in {} |-> 0]

Remember(h, t) == IF Len(h) < MaxWarned THEN Append(h, t) ELSE h

----------------------------------------------------------------------------
(* get_traffic_usage and the usage computation of the poll *)

\* used_traffic, line 184
UsedTraffic == 500

\* lines 183-190; a missing disk size is the TypeError branch of line 193,
\* which the environment selects with probe_ok = FALSE
get_traffic_usage(disk, probe_ok) ==
    IF probe_ok
    THEN [total |-> disk * 1000, used |-> UsedTraffic,
          remaining |-> disk * 1000 - UsedTraffic]
    ELSE [total |-> 1000, used |-> 0, remaining |-> 1000]

\* line 203: (used / total) * 100, compared with whole percentages only, so
\* the floor of the quotient decides every comparison as the float does
usage_percent_of(info) == (info.used * 100) \div info.total

----------------------------------------------------------------------------
(* check_notification_thresholds, lines 215-230 *)

RECURSIVE FirstMatchFrom(_, _, _, _)
\* the for loop of line 220 with the test of line 221 and the break of 230:
\* <<threshold>> of the first match at index >= i, or <<>>
FirstMatchFrom(thresholds, i, usage_percent, last_notified) ==
    IF i > Len(thresholds) THEN <<>>
    ELSE IF usage_percent >= thresholds[i] /\ last_notified < thresholds[i]
         THEN <<thresholds[i]>>
         ELSE FirstMatchFrom(thresholds, i + 1, usage_percent, last_notified)

\* a faulty variant: the test of line 221 with <= for <
FirstMatchRepeats(thresholds, usage_percent, last_notified) ==
    LET S == {i \in 1..Len(thresholds) :
                 usage_percent >= thresholds[i] /\ last_notified <= thresholds[i]}
    IN IF S = {} THEN <<>>
       ELSE <<thresholds[CHOOSE i \in S : \A j \in S : i <= j]>>

\* a faulty variant: the loop without the break of line 230 (the last match wins)
FirstMatchNoBreak(thresholds, usage_percent, last_notified) ==
    LET S == {i \in 1..Len(thresholds) :
                 usage_percent >= thresholds[i] /\ last_notified < thresholds[i]}
    IN IF S = {} THEN <<>>
       ELSE <<thresholds[CHOOSE i \in S : \A j \in S : i >= j]>>

FirstMatch(thresholds, usage_percent, last_notified) ==
    FirstMatchFrom(thresholds, 1, usage_percent, last_notified)

\* the result of one call: the threshold fired (<<>> for none) and the
\* mapping afterwards
check_notification_thresholds(nt, thresholds, server_key, usage_percent) ==
    LET last_notified == DictGet(nt, server_key, 0)
        fired == FirstMatch(thresholds, usage_percent, last_notified)
    IN [fired |-> fired,
        nt |-> IF fired = <<>> THEN nt ELSE DictSet(nt, server_key, fired[1])]

----------------------------------------------------------------------------
(* The provider (hcloud), as the code uses it *)

\* servers.get_all(), line 172: the names of the servers that exist
RECURSIVE Listing(_, _)
Listing(dir, i) ==
    IF i > Len(ListOrder) THEN <<>>
    ELSE IF dir[ListOrder[i]] # <<>>
         THEN <<ListOrder[i]>> \o Listing(dir, i + 1)
         ELSE Listing(dir, i + 1)

\* get_all_servers, lines 169-175: the listing, or [] when the call raises
get_all_servers(dir, api_ok) == IF api_ok THEN Listing(dir, 1) ELSE <<>>

\* servers.get_by_name(name), lines 251 and 263: the call raises, or returns
\* None, or returns the server
get_by_name(dir, name, api_ok) ==
    IF ~api_ok THEN "raised"
    ELSE IF dir[name] = <<>> THEN "None" ELSE "server"

\* server.delete(), lines 253 and 277: succeeds when the provider accepts the
\* call and the server still exists, raises otherwise
delete_accepted(dir, name, api_ok) == api_ok /\ dir[name] # <<>>

\* servers.create(...), lines 281 and 358: succeeds when the provider accepts
\* the call and the name is free, raises otherwise
create_accepted(dir, name, api_ok) == api_ok /\ dir[name] = <<>>

\* the create request built at lines 281-287 and 358-364
CreateRequest(c) ==
    [name |-> c.name, server_type |-> c.server_type, image |-> c.image,
     location |-> c.location, ssh_keys |-> c.ssh_keys]

\* the server a create request produces
Created(req) ==
    [server_type |-> req.server_type, image |-> req.image,
     location |-> req.location, ssh_keys |-> req.ssh_keys]

----------------------------------------------------------------------------
(* delete_server, lines 248-257, in its two provider calls *)

\* line 251-252 and 255-257: what the lookup decides.  "call" goes on to
\* server.delete(); the other outcomes return False
delete_server_lookup(dir, server_name, api_ok) ==
    LET server == get_by_name(dir, server_name, api_ok)
    IN IF server = "server" THEN "call" ELSE "False"

\* lines 253-257: the return value after server.delete()
delete_server_return(deleted) == IF deleted THEN "True" ELSE "False"

\* a faulty variant of handle_traffic_exceeded: the entry is kept after the delete
KeepEntryAfterDelete(nt, name, result) == nt

\* a faulty variant of handle_traffic_exceeded: the entry is dropped whatever
\* delete_server returned
DropEntryAlways(nt, name, result) == DictPop(nt, name)

\* handle_traffic_exceeded, lines 241-246: the mapping after delete_server
\* returned result
after_traffic_delete(nt, name, result) ==
    IF result = "True" THEN DictPop(nt, name) ELSE nt

----------------------------------------------------------------------------
(* Positions and histories *)

Idle == [pc |-> "idle", servers |-> <<>>, usage_percent |-> 0, idx |-> 0]

CmdIdle == [pc |-> "idle", name |-> "", server_config |-> <<>>, read |-> <<>>,
            steps |-> <<>>]

NoRun == [job |-> "none", snapshot |-> <<>>, visited |-> <<>>,
          attempted |-> <<>>,
          succeeded |-> {}, refused |-> {}, raised |-> {}, messaged |-> {},
          finished |-> FALSE,
          returned |-> <<>>]

\* the history of a job is kept until the step after its return
Forget(r) == IF r.finished THEN NoRun ELSE r

\* the loop of a job moves to the next server, or the job returns
NextServer(pc, rest) ==
    IF rest = <<>> THEN Idle
    ELSE [pc |-> pc, servers |-> rest, usage_percent |-> 0, idx |-> 0]

\* send_telegram_message, lines 315-320: the send is attempted; a failure is
\* logged and swallowed
send_telegram_message(kind, name, send_ok) ==
    [type |-> "message", kind |-> kind, server |-> name, delivered |-> send_ok]

\* no usage is held constant
NotSteady == [n \in Names |-> [on |-> FALSE, usage |-> 0, polls |-> 0, start |-> 0]]

TypeOK ==
    /\ config \in Configs
    /\ directory \in [Names -> {<<>>} \cup {<<sp>> : sp \in ServerSpecs}]
    /\ DOMAIN notified_thresholds \subseteq Names
    /\ sched.pc \in {"idle", "poll_check", "poll_exceeded", "poll_delete",
                     "shut_lookup", "shut_delete", "start_create"}
    /\ cmd.pc \in {"idle", "stop_delete", "reb_delete", "reb_create"}

Init ==
    /\ config \in Configs
    /\ directory = [n \in Names |-> IF n = "web1" THEN <<SpecA>> ELSE <<SpecB>>]
    /\ notified_thresholds = EmptyDict
    /\ sched = Idle
    /\ cmd = CmdIdle
    /\ events = <<>>
    /\ run = NoRun
    /\ warned = [n \in Names |-> <<>>]
    /\ policy_reset = {}
    /\ steady = NotSteady

----------------------------------------------------------------------------
(* check_traffic_and_notify, lines 195-213 *)

\* a faulty variant of send_telegram_message: a send that fails raises
SendRaises(send_ok) == ~send_ok

\* send_telegram_message, lines 317-320: whether the call raises; the except
\* of line 319 catches every failure of the send
send_raised(send_ok) == FALSE

\* a faulty variant: the loop of line 200 ends at the first server whose
\* processing fails
PollAborts(rest, outcome) ==
    IF outcome = "failed" THEN Idle ELSE NextServer("poll_check", rest)

\* the loop of line 200 with the try of lines 201-213 inside it: the next
\* server of the snapshot whatever the processing of this one came to
poll_next(rest, outcome) == NextServer("poll_check", rest)

\* a faulty variant: usage equal to the limit does not exceed it
ExceedsStrictly(usage_percent, cfg) == usage_percent > cfg.traffic_limit_percent

\* line 209: the comparison with the limit
traffic_exceeded(usage_percent, cfg) ==
    usage_percent >= cfg.traffic_limit_percent

\* lines 197-198: the snapshot of the servers
PollStart ==
    /\ sched.pc = "idle"
    /\ \E api_ok \in BOOLEAN :
         LET servers == get_all_servers(directory, api_ok)
         IN /\ sched' = NextServer("poll_check", servers)
            /\ run' = [NoRun EXCEPT !.job = "poll", !.snapshot = servers,
                                    !.finished = (sched'.pc = "idle")]
    /\ events' = <<>>
    /\ UNCHANGED <<steady, config, directory, notified_thresholds, cmd, warned,
                   policy_reset>>

\* lines 201-209 for the next server of the snapshot: the usage sample, the
\* threshold check, the comparison with the limit
PollCheckStep ==
    /\ sched.pc = "poll_check"
    /\ LET server == Head(sched.servers)
           rest == Tail(sched.servers)
       IN \E disk \in DiskSizes, probe_ok \in BOOLEAN, send_ok \in BOOLEAN :
            LET traffic_info == get_traffic_usage(disk, probe_ok)
            IN IF traffic_info.total = 0
               THEN \* ZeroDivisionError at line 203, caught at line 212
                    /\ events' = << [type |-> "check_failed", server |-> server] >>
                    /\ sched' = poll_next(rest, "failed")
                    /\ run' = [run EXCEPT !.visited = Append(@, server),
                                          !.refused = @ \cup {server},
                                          !.finished = (sched'.pc = "idle")]
                    /\ UNCHANGED <<notified_thresholds, warned, policy_reset>>
               ELSE LET usage_percent == usage_percent_of(traffic_info)
                        r == check_notification_thresholds(
                                 notified_thresholds,
                                 config.notification_thresholds,
                                 server, usage_percent)
                        \* the send of line 227 comes before the record of
                        \* line 228 and before the limit test of line 209
                        raised == r.fired # <<>> /\ send_raised(send_ok)
                        exceeded == ~raised /\ traffic_exceeded(usage_percent, config)
                    IN /\ notified_thresholds' = IF raised THEN notified_thresholds
                                                 ELSE r.nt
                       /\ events' =
                            << [type |-> "evaluate", server |-> server,
                                usage_percent |-> usage_percent,
                                before |-> notified_thresholds,
                                fired |-> r.fired,
                                after_reset |-> server \in policy_reset,
                                exceeded |-> exceeded] >>
                            \o (IF r.fired = <<>> THEN <<>>
                                ELSE << send_telegram_message("warning", server, send_ok) >>)
                       /\ warned' = IF r.fired = <<>> \/ raised THEN warned
                                    ELSE [warned EXCEPT
                                             ![server] = Remember(@, r.fired[1])]
                       /\ policy_reset' = policy_reset \ {server}
                       /\ IF exceeded
                          THEN /\ sched' = [sched EXCEPT !.pc = "poll_exceeded",
                                               !.usage_percent = usage_percent]
                               /\ run' = [run EXCEPT !.visited = Append(@, server)]
                          ELSE /\ sched' = poll_next(rest, IF raised THEN "failed"
                                                           ELSE "ok")
                               /\ run' = [run EXCEPT
                                             !.visited = Append(@, server),
                                             !.finished = (sched'.pc = "idle")]
    /\ UNCHANGED <<config, directory, cmd>>

\* the step of the poll while the usage of the servers is free to change
PollCheck ==
    /\ PollCheckStep
    /\ UNCHANGED steady

\* handle_traffic_exceeded, lines 234-241, up to the lookup of delete_server
\* (line 251)
PollExceeded ==
    /\ sched.pc = "poll_exceeded"
    /\ LET server == Head(sched.servers)
           rest == Tail(sched.servers)
       IN \E send_ok \in BOOLEAN, api_ok \in BOOLEAN :
            LET alert == send_telegram_message("exceeded", server, send_ok)
                look == delete_server_lookup(directory, server, api_ok)
            IN IF send_raised(send_ok)
               THEN \* line 239 raises: line 241 is not reached
                    /\ sched' = poll_next(rest, "failed")
                    /\ events' = <<alert>>
                    /\ run' = [run EXCEPT !.finished = (sched'.pc = "idle")]
                    /\ UNCHANGED notified_thresholds
               ELSE IF look = "call"
               THEN /\ sched' = [sched EXCEPT !.pc = "poll_delete"]
                    /\ events' = <<alert>>
                    /\ run' = [run EXCEPT !.attempted = Append(@, server)]
                    /\ UNCHANGED notified_thresholds
               ELSE /\ sched' = poll_next(rest, "failed")
                    /\ events' = << alert,
                                    [type |-> "delete_server", caller |-> "policy",
                                     server |-> server,
                                     lookup |-> get_by_name(directory, server, api_ok),
                                     deleted |-> FALSE, result |-> look] >>
                    /\ run' = [run EXCEPT !.attempted = Append(@, server),
                                          !.refused = @ \cup {server},
                                          !.finished = (sched'.pc = "idle")]
                    /\ notified_thresholds' =
                           after_traffic_delete(notified_thresholds, server, look)
    /\ UNCHANGED <<steady, config, directory, cmd, warned, policy_reset>>

\* server.delete() of delete_server (lines 253-257) and the rest of
\* handle_traffic_exceeded (lines 241-246)
PollDelete ==
    /\ sched.pc = "poll_delete"
    /\ LET server == Head(sched.servers)
           rest == Tail(sched.servers)
       IN \E api_ok \in BOOLEAN :
            LET deleted == delete_accepted(directory, server, api_ok)
                result == delete_server_return(deleted)
                nt == after_traffic_delete(notified_thresholds, server, result)
            IN /\ directory' = IF deleted THEN [directory EXCEPT ![server] = <<>>]
                               ELSE directory
               /\ notified_thresholds' = nt
               /\ events' = << [type |-> "delete_server", caller |-> "policy",
                                server |-> server, lookup |-> "server",
                                deleted |-> deleted, result |-> result] >>
               /\ warned' = IF server \in DOMAIN notified_thresholds
                               /\ server \notin DOMAIN nt
                            THEN [warned EXCEPT ![server] = <<>>] ELSE warned
               /\ policy_reset' = IF deleted THEN policy_reset \cup {server}
                                  ELSE policy_reset
               /\ sched' = poll_next(rest, IF deleted THEN "ok" ELSE "failed")
               /\ run' = [run EXCEPT
                             !.succeeded = IF deleted THEN @ \cup {server} ELSE @,
                             !.refused = IF deleted THEN @ ELSE @ \cup {server},
                             !.finished = (sched'.pc = "idle")]
    /\ UNCHANGED <<steady, config, cmd>>

----------------------------------------------------------------------------
(* shutdown_servers, lines 338-346 *)

\* shutdown_servers has no return statement: it returns None
shutdown_servers_return == <<>>

\* a faulty variant: the loop of line 343 ends at the first delete that fails
ShutdownAborts(rest, result) ==
    IF result = "False" THEN Idle ELSE NextServer("shut_lookup", rest)

\* the loop of line 343 after delete_server returned result for a server:
\* the next server whatever the result was
shutdown_next(rest, result) == NextServer("shut_lookup", rest)

\* lines 340-341, registered only when sleep mode is enabled (line 328)
ShutStart ==
    /\ sched.pc = "idle"
    /\ config.sleep_mode.enable
    /\ \E api_ok \in BOOLEAN :
         LET servers == get_all_servers(directory, api_ok)
         IN /\ sched' = NextServer("shut_lookup", servers)
            /\ run' = [NoRun EXCEPT !.job = "shutdown", !.snapshot = servers,
                                    !.finished = (sched'.pc = "idle"),
                                    !.returned = shutdown_servers_return]
    /\ events' = <<>>
    /\ UNCHANGED <<steady, config, directory, notified_thresholds, cmd, warned,
                   policy_reset>>

\* line 344: delete_server up to its lookup (line 251)
ShutLookup ==
    /\ sched.pc = "shut_lookup"
    /\ LET server == Head(sched.servers)
           rest == Tail(sched.servers)
       IN \E api_ok \in BOOLEAN :
            LET look == delete_server_lookup(directory, server, api_ok)
                found == get_by_name(directory, server, api_ok)
            IN IF look = "call"
               THEN /\ sched' = [sched EXCEPT !.pc = "shut_delete"]
                    /\ events' = <<>>
                    /\ run' = [run EXCEPT !.attempted = Append(@, server)]
               ELSE /\ sched' = shutdown_next(rest, look)
                    /\ events' = << [type |-> "delete_server",
                                     caller |-> "shutdown", server |-> server,
                                     lookup |-> found,
                                     deleted |-> FALSE, result |-> look] >>
                    /\ run' = [run EXCEPT !.attempted = Append(@, server),
                                          !.refused = @ \cup {server},
                                          !.raised = IF found = "raised"
                                                     THEN @ \cup {server} ELSE @,
                                          !.finished = (sched'.pc = "idle")]
    /\ UNCHANGED <<steady, config, directory, notified_thresholds, cmd, warned,
                   policy_reset>>

\* server.delete() of delete_server (lines 253-257) and lines 344-346
ShutDelete ==
    /\ sched.pc = "shut_delete"
    /\ LET server == Head(sched.servers)
           rest == Tail(sched.servers)
       IN \E api_ok \in BOOLEAN, send_ok \in BOOLEAN :
            LET deleted == delete_accepted(directory, server, api_ok)
                result == delete_server_return(deleted)
            IN /\ directory' = IF deleted THEN [directory EXCEPT ![server] = <<>>]
                               ELSE directory
               /\ events' =
                    << [type |-> "delete_server", caller |-> "shutdown",
                        server |-> server, lookup |-> "server",
                        deleted |-> deleted, result |-> result] >>
                    \o (IF result = "True"
                        THEN << send_telegram_message("shutdown", server, send_ok) >>
                        ELSE <<>>)
               \* a raise of line 345 would leave shutdown_servers
               /\ sched' = IF result = "True" /\ send_raised(send_ok) THEN Idle
                           ELSE shutdown_next(rest, result)
               /\ run' = [run EXCEPT
                             !.succeeded = IF deleted THEN @ \cup {server} ELSE @,
                             !.refused = IF deleted THEN @ ELSE @ \cup {server},
                             !.raised = IF deleted THEN @ ELSE @ \cup {server},
                             !.messaged = IF result = "True" THEN @ \cup {server}
                                          ELSE @,
                             !.finished = (sched'.pc = "idle")]
    /\ UNCHANGED <<steady, config, notified_thresholds, cmd, warned, policy_reset>>

----------------------------------------------------------------------------
(* startup_servers, lines 348-370 *)

\* startup_servers has no return statement: it returns None
startup_servers_return == <<>>

\* a faulty variant: the loop of line 355 ends at the first create that raises
StopAtFailure(idx, n, created) == IF created /\ idx < n THEN idx + 1 ELSE 0

\* the loop of line 355 with the try of line 356: the index of the next spec
\* after the one at idx was tried, 0 when the list is through
next_spec(idx, n, created) == IF idx < n THEN idx + 1 ELSE 0

\* a faulty variant: startup_servers does not look at sleep_mode.enable
StartupUngated(cfg) == TRUE

\* lines 352-353: startup_servers returns at once when sleep mode is disabled
startup_proceeds(cfg) == cfg.sleep_mode.enable

\* lines 350-355: a call of startup_servers up to its loop
startup_servers_call ==
    /\ sched.pc = "idle"
    /\ LET specs == config.sleep_mode.rebuild_servers
       IN /\ sched' = IF ~startup_proceeds(config) \/ specs = <<>> THEN Idle
                      ELSE [Idle EXCEPT !.pc = "start_create", !.idx = 1]
          /\ run' = [NoRun EXCEPT !.job = "startup",
                                  !.finished = (sched'.pc = "idle"),
                                  !.returned = startup_servers_return]
    /\ events' = <<>>
    /\ UNCHANGED <<steady, config, directory, notified_thresholds, cmd, warned,
                   policy_reset>>

\* the startup job, registered only when sleep mode is enabled (lines
\* 328-334)
StartBegin ==
    /\ config.sleep_mode.enable
    /\ startup_servers_call

\* startup_servers called whatever the configuration says
StartCall == startup_servers_call

\* lines 356-370 for the spec at idx: the create, the read of the new
\* address, the message
StartCreate ==
    /\ sched.pc = "start_create"
    /\ LET specs == config.sleep_mode.rebuild_servers
           server_config == specs[sched.idx]
           req == CreateRequest(server_config)
       IN \E api_ok \in BOOLEAN, ip_ok \in BOOLEAN, send_ok \in BOOLEAN :
            LET created == create_accepted(directory, req.name, api_ok)
                nxt == next_spec(sched.idx, Len(specs), created)
            IN /\ directory' = IF created
                               THEN [directory EXCEPT ![req.name] = <<Created(req)>>]
                               ELSE directory
               /\ events' =
                    << [type |-> "create", caller |-> "startup",
                        request |-> req, created |-> created] >>
                    \o (IF created /\ ip_ok
                        THEN << send_telegram_message("startup", req.name, send_ok) >>
                        ELSE <<>>)
               /\ sched' = IF nxt = 0 THEN Idle ELSE [sched EXCEPT !.idx = nxt]
               /\ run' = [run EXCEPT
                             !.attempted = Append(@, req.name),
                             !.succeeded = IF created THEN @ \cup {req.name} ELSE @,
                             !.refused = IF created THEN @ ELSE @ \cup {req.name},
                             !.messaged = IF created /\ ip_ok THEN @ \cup {req.name}
                                          ELSE @,
                             !.finished = (sched'.pc = "idle")]
    /\ UNCHANGED <<steady, config, notified_thresholds, cmd, warned, policy_reset>>

----------------------------------------------------------------------------
(* The /stop command, lines 121-130 *)

\* lines 124-125 with delete_server up to its lookup (line 251); a name
\* that is not found is answered at line 128
StopLookup ==
    /\ cmd.pc = "idle"
    /\ \E server_name \in Names, api_ok \in BOOLEAN :
         LET look == delete_server_lookup(directory, server_name, api_ok)
         IN IF look = "call"
            THEN /\ cmd' = [CmdIdle EXCEPT !.pc = "stop_delete",
                                           !.name = server_name]
                 /\ events' = <<>>
            ELSE /\ cmd' = CmdIdle
                 /\ events' = << [type |-> "delete_server", caller |-> "stop",
                                  server |-> server_name,
                                  lookup |-> get_by_name(directory, server_name, api_ok),
                                  deleted |-> FALSE, result |-> look],
                                 [type |-> "reply", command |-> "stop",
                                  server |-> server_name, success |-> FALSE] >>
    /\ run' = Forget(run)
    /\ UNCHANGED <<steady, config, directory, notified_thresholds, sched, warned,
                   policy_reset>>

\* server.delete() of delete_server (lines 253-257) and the reply of lines
\* 125-128
StopDelete ==
    /\ cmd.pc = "stop_delete"
    /\ \E api_ok \in BOOLEAN :
         LET deleted == delete_accepted(directory, cmd.name, api_ok)
             result == delete_server_return(deleted)
         IN /\ directory' = IF deleted THEN [directory EXCEPT ![cmd.name] = <<>>]
                            ELSE directory
            /\ events' = << [type |-> "delete_server", caller |-> "stop",
                             server |-> cmd.name, lookup |-> "server",
                             deleted |-> deleted, result |-> result],
                            [type |-> "reply", command |-> "stop",
                             server |-> cmd.name,
                             success |-> (result = "True")] >>
    /\ cmd' = CmdIdle
    /\ run' = Forget(run)
    /\ UNCHANGED <<steady, config, notified_thresholds, sched, warned, policy_reset>>

----------------------------------------------------------------------------
(* rebuild_server, lines 259-297, called by /rebuild (lines 108-119) *)

\* a faulty variant: the backup of lines 268-274 keeps the name only and the
\* create falls back to one fixed spec
BackupNameOnly(name, server) == [name |-> name] @@ SpecA

\* lines 268-274: the backup of the server's configuration
server_config_of(name, server) ==
    [name |-> name, server_type |-> server.server_type, image |-> server.image,
     location |-> server.location, ssh_keys |-> server.ssh_keys]

\* lines 293-297: what rebuild_server reports when it ends at stage, after
\* the steps it performed
RebuildFailed(server_name, stage, steps) ==
    << [type |-> "rebuild", server |-> server_name, stage |-> stage,
        result |-> "False", steps |-> steps],
       [type |-> "reply", command |-> "rebuild", server |-> server_name,
        success |-> FALSE] >>

Step(name, ok) == [step |-> name, ok |-> ok]

\* a faulty variant: a delete that raises does not end the rebuild
RebuildGoesOn(stage, ok) ==
    IF stage = "lookup" THEN (IF ok THEN "reb_delete" ELSE "idle")
    ELSE "reb_create"

\* the try of lines 261-297: after the lookup (lines 263-265) and after the
\* delete (line 277) the rebuild goes on only when the step succeeded
rebuild_next(stage, ok) ==
    IF ~ok THEN "idle"
    ELSE IF stage = "lookup" THEN "reb_delete" ELSE "reb_create"

\* lines 263-274: the lookup and the backup; attrs_ok = FALSE is an
\* attribute of the server object that cannot be read (line 295)
RebLookup ==
    /\ cmd.pc = "idle"
    /\ \E server_name \in Names, api_ok \in BOOLEAN, attrs_ok \in BOOLEAN :
         LET server == get_by_name(directory, server_name, api_ok)
             found == server = "server" /\ attrs_ok
             steps == << Step("lookup", found) >>
             nxt == rebuild_next("lookup", found)
         IN IF nxt # "idle"
            THEN /\ cmd' = [pc |-> nxt, name |-> server_name,
                            server_config |->
                               << server_config_of(server_name,
                                                   directory[server_name][1]) >>,
                            read |-> directory[server_name],
                            steps |-> steps]
                 /\ events' = <<>>
            ELSE /\ cmd' = CmdIdle
                 /\ events' = RebuildFailed(server_name, "lookup", steps)
    /\ run' = Forget(run)
    /\ UNCHANGED <<steady, config, directory, notified_thresholds, sched, warned,
                   policy_reset>>

\* lines 277-278: the delete and the wait
RebDelete ==
    /\ cmd.pc = "reb_delete"
    /\ \E api_ok \in BOOLEAN :
         LET deleted == delete_accepted(directory, cmd.name, api_ok)
             steps == Append(cmd.steps, Step("delete", deleted))
             nxt == rebuild_next("delete", deleted)
         IN /\ directory' = IF deleted THEN [directory EXCEPT ![cmd.name] = <<>>]
                            ELSE directory
            /\ IF nxt # "idle"
               THEN /\ cmd' = [cmd EXCEPT !.pc = nxt, !.steps = steps]
                    /\ events' = IF deleted
                                 THEN << [type |-> "deleted", caller |-> "rebuild",
                                          server |-> cmd.name] >>
                                 ELSE <<>>
               ELSE /\ cmd' = CmdIdle
                    /\ events' = RebuildFailed(cmd.name, "delete", steps)
    /\ run' = Forget(run)
    /\ UNCHANGED <<steady, config, notified_thresholds, sched, warned, policy_reset>>

\* lines 290 and 301: the DNS update is made only when cloudflare.enable
dns_enabled(cfg) == cfg.cloudflare.enable

\* lines 281-297: the create, then, when DNS is enabled, the read of the new
\* address (line 291) and update_cloudflare_dns (lines 299-313), whose own
\* failure is logged at line 313 and goes no further
RebCreate ==
    /\ cmd.pc = "reb_create"
    /\ \E api_ok \in BOOLEAN, ip_ok \in BOOLEAN, dns_ok \in BOOLEAN :
         LET server_config == cmd.server_config[1]
             req == CreateRequest(server_config)
             free == directory[req.name] = <<>>
             created == create_accepted(directory, req.name, api_ok)
             request == [type |-> "create", caller |-> "rebuild",
                         server |-> cmd.name,
                         request |-> req, created |-> created,
                         free |-> free, read |-> cmd.read]
             s1 == Append(cmd.steps, Step("create", created))
             s2 == Append(s1, Step("address", ip_ok))
             s3 == Append(s2, Step("dns", dns_ok))
             done(steps) ==
                 << [type |-> "rebuild", server |-> cmd.name,
                     stage |-> "done", result |-> "True",
                     read |-> cmd.read, steps |-> steps],
                    [type |-> "reply", command |-> "rebuild",
                     server |-> cmd.name, success |-> TRUE] >>
         IN /\ directory' = IF created
                            THEN [directory EXCEPT ![req.name] = <<Created(req)>>]
                            ELSE directory
            /\ events' =
                 IF ~created
                 THEN <<request>> \o RebuildFailed(cmd.name, "create", s1)
                 ELSE IF ~dns_enabled(config)
                 THEN <<request>> \o done(s1)
                 ELSE IF ~ip_ok
                 THEN <<request>> \o RebuildFailed(cmd.name, "address", s2)
                 ELSE <<request>>
                      \o << [type |-> "dns_update", server |-> cmd.name,
                             ok |-> dns_ok] >>
                      \o done(s3)
    /\ cmd' = CmdIdle
    /\ run' = Forget(run)
    /\ UNCHANGED <<steady, config, notified_thresholds, sched, warned, policy_reset>>

----------------------------------------------------------------------------
(* The two threads, lines 372-397 *)

Next ==
    \/ PollStart
    \/ PollCheck
    \/ PollExceeded
    \/ PollDelete
    \/ ShutStart
    \/ ShutLookup
    \/ ShutDelete
    \/ StartBegin
    \/ StartCreate
    \/ StopLookup
    \/ StopDelete
    \/ RebLookup
    \/ RebDelete
    \/ RebCreate

Spec == Init /\ [][Next]_vars

----------------------------------------------------------------------------
(* The poll under a usage that stays constant *)

\* the polls counted for one server under its constant usage
MaxSteadyPolls == 3

\* the usage values below the limit that get_traffic_usage can produce
SteadyUsages ==
    {u \in {usage_percent_of(get_traffic_usage(disk, probe_ok)) :
                disk \in DiskSizes \ {0}, probe_ok \in BOOLEAN} :
        ~traffic_exceeded(u, config)}

Settled == \A n \in Names : steady[n].on

\* from here on get_traffic_usage gives the same usage for each server; the
\* entry each server has at this moment is remembered
Settle ==
    /\ sched.pc = "idle"
    /\ ~Settled
    /\ \E u \in [Names -> SteadyUsages] :
         steady' = [n \in Names |->
                       [on |-> TRUE, usage |-> u[n], polls |-> 0,
                        start |-> DictGet(notified_thresholds, n, 0)]]
    /\ events' = <<>>
    /\ run' = Forget(run)
    /\ UNCHANGED <<config, directory, notified_thresholds, sched, cmd, warned,
                   policy_reset>>

\* the step of the poll for a server whose usage is held constant
SteadyCheck ==
    /\ Settled
    /\ PollCheckStep
    /\ LET server == Head(sched.servers)
       IN /\ events'[1].type = "evaluate"
          /\ events'[1].usage_percent = steady[server].usage
          /\ steady' = [steady EXCEPT
                           ![server].polls = IF @ < MaxSteadyPolls THEN @ + 1
                                             ELSE @]

\* the step of the poll before the usage settles
FreeCheck == ~Settled /\ PollCheck

\* the scheduler alone, running polls: first with any usage, then with the
\* usage of each server held constant below the limit
ConvergeNext ==
    \/ PollStart
    \/ FreeCheck
    \/ PollExceeded
    \/ PollDelete
    \/ Settle
    \/ SteadyCheck

ConvergeSpec == Init /\ [][ConvergeNext]_vars

\* the program, with startup_servers also called outside the schedule
StartupSpec == Init /\ [][Next \/ StartCall]_vars

----------------------------------------------------------------------------
(* Properties *)

IsEvent(i, type) == i \in DOMAIN events /\ events[i].type = type

StrictlyIncreasing(h) == \A i \in 1..(Len(h) - 1) : h[i] < h[i + 1]

SetOf(seq) == {seq[i] : i \in DOMAIN seq}

\* the configured thresholds that usage u crosses and that lie above the
\* entry of the server in mapping nt (every threshold when it has no entry)
Crossed(nt, server, u) ==
    {t \in SetOf(config.notification_thresholds) :
        u >= t /\ (server \in DOMAIN nt => t > nt[server])}

Smallest(S) == CHOOSE t \in S : \A x \in S : t <= x

Warnings(server) ==
    {i \in DOMAIN events : /\ events[i].type = "message"
                           /\ events[i].kind = "warning"
                           /\ events[i].server = server}

\* C1: the thresholds warned for a server since the last reset of its entry
\* form a strictly increasing sequence: none is warned twice, none is lower
\* than an earlier one.  It holds for every sequence of usage samples, the
\* non-decreasing ones among them.
C1_MonotonicStaging == \A n \in Names : StrictlyIncreasing(warned[n])

\* a server was warned at each of the three thresholds in turn, the last
\* one at the highest usage a sample can show
C1_Witness ==
    /\ warned["web1"] = <<10, 25, 50>>
    /\ IsEvent(1, "evaluate")
    /\ events[1].server = "web1"
    /\ events[1].usage_percent = 50
    /\ events[1].fired = <<50>>

\* C2: one evaluation fires exactly the smallest configured threshold t with
\* usage >= t and t above the last notified value (no entry: below every
\* threshold) and records it; without such a t it fires nothing and leaves
\* the mapping as it was.
C2_FirstAscendingMatch ==
    \A i \in DOMAIN events :
        events[i].type = "evaluate" =>
            LET e == events[i]
                C == Crossed(e.before, e.server, e.usage_percent)
            IN IF C = {}
               THEN /\ e.fired = <<>>
                    /\ notified_thresholds = e.before
                    /\ Warnings(e.server) = {}
               ELSE /\ e.fired = <<Smallest(C)>>
                    /\ notified_thresholds = DictSet(e.before, e.server, Smallest(C))
                    /\ Cardinality(Warnings(e.server)) = 1

\* usage far above several thresholds: the evaluation after the one that
\* fired 10 fires 25, not 50
C2_Witness ==
    /\ IsEvent(1, "evaluate")
    /\ events[1].usage_percent = 50
    /\ events[1].server \in DOMAIN events[1].before
    /\ events[1].before[events[1].server] = 10
    /\ events[1].fired = <<25>>
    /\ notified_thresholds[events[1].server] = 25

\* C3: for a sample with usage >= traffic_limit_percent no threshold warning
\* is issued and no last-notified value is recorded: the destroy is the
\* only action.
C3_DestroyOnly ==
    \A i \in DOMAIN events :
        (events[i].type = "evaluate" /\ events[i].exceeded) =>
            /\ events[i].fired = <<>>
            /\ Warnings(events[i].server) = {}
            /\ notified_thresholds = events[i].before

\* C4: delete_server reports success for a name the provider does not have.
C4_AbsentIsSuccess ==
    \A i \in DOMAIN events :
        (events[i].type = "delete_server" /\ events[i].lookup = "None") =>
            events[i].result = "True"

\* C5: after a successful destroy by the traffic policy the name has no
\* entry, and the next evaluation of a server of that name fires the
\* smallest threshold its usage crosses, as for a server never notified.
C5_ResetOnPolicyDestroy ==
    /\ \A i \in DOMAIN events :
          (/\ events[i].type = "delete_server"
           /\ events[i].caller = "policy"
           /\ events[i].result = "True")
          => events[i].server \notin DOMAIN notified_thresholds
    /\ \A n \in policy_reset : n \notin DOMAIN notified_thresholds
    /\ \A i \in DOMAIN events :
          (events[i].type = "evaluate" /\ events[i].after_reset) =>
              LET C == Crossed(EmptyDict, events[i].server, events[i].usage_percent)
              IN events[i].fired = IF C = {} THEN <<>> ELSE <<Smallest(C)>>

\* a server destroyed by the policy was created again and its first
\* evaluation, at a usage above two thresholds, fired the smallest one
C5_Witness ==
    /\ IsEvent(1, "evaluate")
    /\ events[1].after_reset
    /\ events[1].usage_percent = 25
    /\ events[1].fired = <<10>>

\* C6: whichever path deleted a server successfully, the name has no entry
\* in notified_thresholds afterwards.
C6_ResetOnEveryDestroy ==
    \A i \in DOMAIN events :
        /\ (events[i].type = "delete_server" /\ events[i].result = "True")
           => events[i].server \notin DOMAIN notified_thresholds
        /\ events[i].type = "deleted"
           => events[i].server \notin DOMAIN notified_thresholds

\* a delete_server call, or the delete of rebuild, that ended in failure
FailedDestroy(ev) ==
    \E i \in DOMAIN ev :
        \/ ev[i].type = "delete_server" /\ ev[i].result = "False"
        \/ ev[i].type = "rebuild" /\ ev[i].stage = "delete"

\* C7: a destroy whose provider delete fails reports failure and leaves
\* notified_thresholds exactly as it was: no step of delete_server, and no
\* step of handle_traffic_exceeded around it, that ends in failure changes
\* the mapping.
C7_FailedDestroyKeepsThresholds ==
    /\ [](\A i \in DOMAIN events :
            (events[i].type = "delete_server" /\ ~events[i].deleted)
                => events[i].result = "False")
    /\ [][FailedDestroy(events') => notified_thresholds' = notified_thresholds]_vars

\* the policy's delete of a server that has an entry was refused by the
\* provider, and the entry is still there
C7_Witness ==
    /\ IsEvent(1, "delete_server")
    /\ events[1].caller = "policy"
    /\ events[1].lookup = "server"
    /\ events[1].result = "False"
    /\ events[1].server \in DOMAIN notified_thresholds
    /\ notified_thresholds[events[1].server] = 25

ShutdownReturned == run.job = "shutdown" /\ run.finished

StartupReturned == run.job = "startup" /\ run.finished

SpecNames ==
    [i \in DOMAIN config.sleep_mode.rebuild_servers |->
        config.sleep_mode.rebuild_servers[i].name]

C10_RebuildPreservesSpec ==
    \A i \in DOMAIN events :
        /\ (events[i].type = "create" /\ events[i].caller = "rebuild") =>
              /\ events[i].read # <<>>
              /\ events[i].request =
                    [name |-> events[i].server,
                     server_type |-> events[i].read[1].server_type,
                     image |-> events[i].read[1].image,
                     location |-> events[i].read[1].location,
                     ssh_keys |-> events[i].read[1].ssh_keys]
        /\ (events[i].type = "rebuild" /\ events[i].result = "True") =>
              /\ directory[events[i].server] = events[i].read
              /\ IsEvent(1, "create")
              /\ events[1].created

\* web1, started by the sleep cycle with another spec than it had at first,
\* was rebuilt successfully
C10_Witness ==
    \E i \in DOMAIN events :
        /\ events[i].type = "rebuild"
        /\ events[i].result = "True"
        /\ events[i].server = "web1"
        /\ events[i].read = <<SpecB>>
        /\ directory["web1"] = <<SpecB>>

----------------------------------------------------------------------------
(* rebuild_server: the order of its steps *)

RebuildOrder == << "lookup", "delete", "create", "address", "dns" >>

\* the steps of a rebuild follow the order of the code, and every step
\* before the last one performed has succeeded
InOrder(steps) ==
    /\ Len(steps) \in 1..Len(RebuildOrder)
    /\ \A i \in DOMAIN steps :
          /\ steps[i].step = RebuildOrder[i]
          /\ i < Len(steps) => steps[i].ok

----------------------------------------------------------------------------
(* send_telegram_message: a send that fails *)

Undelivered(i, kind) ==
    /\ IsEvent(i, "message")
    /\ events[i].kind = kind
    /\ ~events[i].delivered

\* the servers of the snapshot that the loop of a job has still to take
Remaining == SubSeq(run.snapshot, Len(run.attempted) + 1, Len(run.snapshot))

\* C12: a send that fails changes nothing of what is done to the servers: a
\* warning that was not delivered is recorded as the entry of its server
\* like a delivered one, so that it is not sent again, and the limit is
\* tested after it; a destroy alert that was not delivered is followed by
\* the call of delete_server; after a shutdown or startup message that was
\* not delivered the batch goes on with the next server.
C12_SendIsBestEffort ==
    \A i \in DOMAIN events :
        /\ Undelivered(i, "warning") =>
              LET s == events[i].server
              IN /\ IsEvent(1, "evaluate")
                 /\ events[1].fired # <<>>
                 /\ s \in DOMAIN notified_thresholds
                 /\ notified_thresholds[s] = events[1].fired[1]
                 /\ warned[s] # <<>>
                 /\ warned[s][Len(warned[s])] = events[1].fired[1]
                 /\ StrictlyIncreasing(warned[s])
                 /\ events[1].exceeded
                       = (events[1].usage_percent >= config.traffic_limit_percent)
        /\ Undelivered(i, "exceeded") =>
              \/ /\ sched.pc = "poll_delete"
                 /\ Head(sched.servers) = events[i].server
              \/ \E j \in DOMAIN events :
                    /\ events[j].type = "delete_server"
                    /\ events[j].caller = "policy"
                    /\ events[j].server = events[i].server
        /\ Undelivered(i, "shutdown") =>
              /\ directory[events[i].server] = <<>>
              /\ sched.servers = Remaining
              /\ (sched.pc = "idle") = (Remaining = <<>>)
              /\ (sched.pc # "idle") => sched.pc = "shut_lookup"
        /\ Undelivered(i, "startup") =>
              LET n == Len(config.sleep_mode.rebuild_servers)
              IN /\ directory[events[i].server] # <<>>
                 /\ (sched.pc = "idle") = (Len(run.attempted) = n)
                 /\ (sched.pc # "idle") =>
                        /\ sched.pc = "start_create"
                        /\ sched.idx = Len(run.attempted) + 1

\* the warning for threshold 25 of web1 was not delivered and is recorded
C12_Witness ==
    /\ Undelivered(2, "warning")
    /\ events[2].server = "web1"
    /\ "web1" \in DOMAIN notified_thresholds
    /\ notified_thresholds["web1"] = 25
    /\ warned["web1"] = << 10, 25 >>

----------------------------------------------------------------------------
(* The scheduler thread and the bot thread on one server name *)

\* the scheduler thread is between two steps of an operation on name n: a
\* poll between its threshold check and its destroy, a delete_server between
\* its lookup and its delete
SchedulerWithin(n) ==
    /\ sched.pc \in {"poll_exceeded", "poll_delete", "shut_delete"}
    /\ Head(sched.servers) = n

\* the bot thread is between two steps of /stop n or /rebuild n
CommandWithin(n) == cmd.pc # "idle" /\ cmd.name = n

\* C13: the scheduler thread and the bot thread are never both within an
\* operation on the same server name.
C13_PerServerSerialized ==
    \A n \in Names : ~(SchedulerWithin(n) /\ CommandWithin(n))

----------------------------------------------------------------------------
(* run_scheduler: the jobs of the one scheduler thread *)

PollIterating == sched.pc \in {"poll_check", "poll_exceeded", "poll_delete"}

\* C14: the time of a daily job may come in any state; while the traffic
\* poll is iterating, the shutdown job and the startup job can start, without
\* waiting for the return of the poll.
C14_DueJobStartsDuringPoll ==
    (config.sleep_mode.enable /\ PollIterating)
        => (ENABLED ShutStart /\ ENABLED StartBegin)

----------------------------------------------------------------------------
(* notified_thresholds over the steps of both threads *)

PolicyDestroyed(ev, n) ==
    \E i \in DOMAIN ev :
        /\ ev[i].type = "delete_server"
        /\ ev[i].caller = "policy"
        /\ ev[i].server = n
        /\ ev[i].result = "True"

CommandStep(ev) ==
    \/ cmd' # cmd
    \/ \E i \in DOMAIN ev : ev[i].type = "reply"

\* C15: every entry of notified_thresholds is one of the configured
\* thresholds; no step lowers an entry, whatever the usage sample is; an
\* entry is removed only by the step in which the traffic policy destroyed
\* the server, which leaves the name without a server; no step of a command
\* handler changes the mapping.
C15_ThresholdState ==
    /\ [](\A n \in DOMAIN notified_thresholds :
             notified_thresholds[n] \in SetOf(config.notification_thresholds))
    /\ [][/\ \A n \in DOMAIN notified_thresholds :
                /\ n \in DOMAIN notified_thresholds'
                      => notified_thresholds'[n] >= notified_thresholds[n]
                /\ n \notin DOMAIN notified_thresholds'
                      => /\ PolicyDestroyed(events', n)
                         /\ directory'[n] = <<>>
          /\ CommandStep(events') => notified_thresholds' = notified_thresholds
         ]_vars

\* the policy has just destroyed web1 and removed its entry, while web2
\* keeps the entry 25
C15_Witness ==
    /\ PolicyDestroyed(events, "web1")
    /\ "web1" \notin DOMAIN notified_thresholds
    /\ "web2" \in DOMAIN notified_thresholds
    /\ notified_thresholds["web2"] = 25
    /\ run.job = "poll"
    /\ run.snapshot = << "web1" >>

----------------------------------------------------------------------------
(* check_traffic_and_notify: one server that fails among the others *)

PollReturned == run.job = "poll" /\ run.finished

\* C16: when a poll returns, the body of its loop has been entered for every
\* server of its snapshot, in the order of the snapshot, whatever failed for
\* one of them: a usage that could not be computed, a warning that could not
\* be sent, a delete that was refused.
C16_PollIsolation ==
    /\ PollReturned => run.visited = run.snapshot
    /\ (run.job = "poll" /\ ~run.finished) =>
          /\ sched.pc \in {"poll_check", "poll_exceeded", "poll_delete"}
          /\ run.visited \o (IF sched.pc = "poll_check" THEN sched.servers
                             ELSE Tail(sched.servers))
                = run.snapshot
    /\ \A i \in DOMAIN events :
          events[i].type \in {"evaluate", "check_failed"} =>
              /\ run.job = "poll"
              /\ run.visited # <<>>
              /\ run.visited[Len(run.visited)] = events[i].server

\* a poll of web1 and web2 has returned: the usage of web1 could not be
\* computed, and web2 was evaluated after it
C16_Witness ==
    /\ PollReturned
    /\ run.snapshot = << "web1", "web2" >>
    /\ run.refused = {"web1"}
    /\ IsEvent(1, "evaluate")
    /\ events[1].server = "web2"

----------------------------------------------------------------------------
(* shutdown_servers beside the commands *)

\* C17: when shutdown_servers returns and no provider call of it has
\* raised, no server of its snapshot exists, whatever /rebuild and /stop did
\* in the meantime.
C17_ShutdownEmptiesSnapshot ==
    (ShutdownReturned /\ run.raised = {})
        => \A n \in SetOf(run.snapshot) : directory[n] = <<>>

----------------------------------------------------------------------------
(* Sleep mode disabled *)

AddsNoServer == \A n \in Names : directory[n] = <<>> => directory'[n] = <<>>

\* C18: with sleep mode disabled a call of startup_servers returns before
\* its first create, the scheduler is never at a create of the startup
\* batch, no create request comes from startup_servers, and no step other
\* than a step of a command adds a server.
C18_SleepModeGating ==
    /\ [](~config.sleep_mode.enable =>
             /\ sched.pc # "start_create"
             /\ \A i \in DOMAIN events :
                   events[i].type = "create" => events[i].caller # "startup"
             /\ run.job = "startup" => (run.finished /\ run.attempted = <<>>))
    /\ [][(~config.sleep_mode.enable /\ cmd' = cmd) => AddsNoServer]_vars

\* startup_servers was called with sleep mode disabled while web1, a name of
\* its list, had no server: it returned and web1 still has none
C18_Witness ==
    /\ ~config.sleep_mode.enable
    /\ run.job = "startup"
    /\ run.finished
    /\ directory["web1"] = <<>>

----------------------------------------------------------------------------
(* handle_traffic_exceeded in every poll *)

AlertFor(ev, n) ==
    \E i \in DOMAIN ev :
        /\ ev[i].type = "message"
        /\ ev[i].kind = "exceeded"
        /\ ev[i].server = n

PolicyDeleteResult(ev, n) ==
    \E i \in DOMAIN ev :
        /\ ev[i].type = "delete_server"
        /\ ev[i].caller = "policy"
        /\ ev[i].server = n

\* C20: every evaluation of a server of the snapshot whose usage is at or
\* above traffic_limit_percent goes on to handle_traffic_exceeded, whatever
\* notified_thresholds holds and whatever earlier polls did; the next step
\* of the scheduler then sends the destroy alert and calls delete_server for
\* that server, and a delete that was begun ends with the result of
\* delete_server.
C20_DestroyNotDeduplicated ==
    /\ [](\A i \in DOMAIN events :
             events[i].type = "evaluate" =>
                 /\ events[i].exceeded
                       = (events[i].usage_percent >= config.traffic_limit_percent)
                 /\ events[i].exceeded =>
                       /\ sched.pc = "poll_exceeded"
                       /\ Head(sched.servers) = events[i].server)
    /\ [][(sched.pc = "poll_exceeded" /\ sched' # sched) =>
             LET server == Head(sched.servers)
             IN /\ AlertFor(events', server)
                /\ run'.attempted = Append(run.attempted, server)
                /\ \/ sched'.pc = "poll_delete" /\ Head(sched'.servers) = server
                   \/ PolicyDeleteResult(events', server)
         ]_vars
    /\ [][(sched.pc = "poll_delete" /\ sched' # sched) =>
             PolicyDeleteResult(events', Head(sched.servers))
         ]_vars

\* web1 is over the limit again in a poll after the one that recorded its
\* last threshold and failed to delete it: nothing is left to warn about,
\* and the poll goes on to the destroy
C20_Witness ==
    /\ IsEvent(1, "evaluate")
    /\ events[1].server = "web1"
    /\ "web1" \in DOMAIN events[1].before
    /\ events[1].before["web1"] = 50
    /\ events[1].fired = <<>>
    /\ events[1].exceeded
    /\ sched.pc = "poll_exceeded"

----------------------------------------------------------------------------
(* The staged warnings under a constant usage *)

Largest(S) == CHOOSE t \in S : \A x \in S : t >= x

\* the configured thresholds at or below usage u
Reached(u) == {t \in SetOf(config.notification_thresholds) : t <= u}

Entry(n) == DictGet(notified_thresholds, n, 0)

\* C19 as stated: after k polls under a constant usage u below the limit,
\* k the number of thresholds at or below u, the entry of the server is the
\* largest threshold at or below u.
C19_ConvergesToLargestReached ==
    \A n \in Names :
        (/\ steady[n].on
         /\ Reached(steady[n].usage) # {}
         /\ steady[n].polls >= Cardinality(Reached(steady[n].usage)))
        => Entry(n) = Largest(Reached(steady[n].usage))

\* C19: a step of a poll sends at most one warning for its server; after k
\* polls of a server under a constant usage u below the limit, k the number
\* of thresholds at or below u, its entry is the larger of the entry it had
\* when the usage settled and the largest threshold at or below u, and a
\* later poll under that usage fires nothing for it.
C19_StagedCatchUpConverges ==
    \A n \in Names :
        /\ Cardinality(Warnings(n)) <= 1
        /\ steady[n].on =>
              LET k == Cardinality(Reached(steady[n].usage))
              IN /\ steady[n].polls >= k =>
                       Entry(n) = Largest(Reached(steady[n].usage)
                                          \cup {steady[n].start})
                 /\ (/\ steady[n].polls > k
                     /\ IsEvent(1, "evaluate")
                     /\ events[1].server = n)
                    => events[1].fired = <<>>

\* web1, whose usage settled at 25 when it had no entry, was warned of 10
\* and of 25 in two polls and is evaluated a third time
C19_Witness ==
    /\ steady["web1"].on
    /\ steady["web1"].usage = 25
    /\ steady["web1"].start = 0
    /\ steady["web1"].polls = 3
    /\ warned["web1"] = << 10, 25 >>
    /\ IsEvent(1, "evaluate")
    /\ events[1].server = "web1"
    /\ events[1].fired = <<>>

====
